---------------------------- MODULE Spec2Model ----------------------------
(***************************************************************************)
(* A model of lyrics-sync: the upload server (hash registry, upload        *)
(* handler, parseLyrics) and the karaoke player's lyric synchronizer.      *)
(*                                                                         *)
(* Three specifications share the module:                                  *)
(*   SpecParse   a lyrics file is written line by line, then parseLyrics   *)
(*               runs on its content;                                      *)
(*   SpecServer  upload requests are stored by multer and handled by the   *)
(*               POST /upload handler against the fileHashes registry;     *)
(*   SpecPlayer  the KaraokePlayer page: play, pause, restart, stop and    *)
(*               the animation-frame callbacks.                            *)
(* Text is modelled as sequences of one-character strings.  Timestamps     *)
(* are held in hundredths of a second, so that the JavaScript value        *)
(* m*60 + s + f/100 is the integer 100*(m*60 + s) + f.                     *)
(***************************************************************************)
EXTENDS Integers, Sequences, FiniteSets, TLC

VARIABLES
    content,        \* parser: the text handed to parseLyrics
    parsed,         \* parser: the array parseLyrics returned
    parsePhase,     \* parser: "writing" | "parsed"
    started,        \* server: initializeFileHashes has run, app is listening
    disk,           \* server: the uploads directory, file name -> file
    fileHashes,     \* server: the Map hash -> fileInfo
    requests,       \* server: the upload requests received, in arrival order
    responses,      \* server: request -> the JSON answer it was given
    handled,        \* server: the requests whose handler has run, in order
    setLog,         \* server: every fileHashes.set so far, in order
    lyrics,         \* player: this.lyrics
    currentTime,    \* player: this.audioElement.currentTime
    playPromises,   \* player: audioElement.play() promises not yet settled
    isPlaying,      \* player: this.isPlaying
    currentLyricIndex,  \* player: this.currentLyricIndex
    animationFrame, \* player: this.animationFrame (0 is null)
    rafQueue,       \* player: the animation-frame callbacks requested
    displayText,    \* player: lyricsDisplay.textContent
    lyricsActive,   \* player: body has the class lyrics-active
    lastTick,       \* player: what the latest run of updateLyrics resolved
                    \*   (n alternates between 0 and 1 from run to run)
    resetSince,     \* player: restart or stop ran since that run
    tickTrace       \* player: the runs of updateLyrics that SpecSync and
                    \*   SpecIdle record

parseVars == <<content, parsed, parsePhase>>

serverVars ==
    <<started, disk, fileHashes, requests, responses, handled, setLog>>

playerVars ==
    <<lyrics, currentTime, playPromises, isPlaying,
      currentLyricIndex, animationFrame, rafQueue, displayText,
      lyricsActive, lastTick, resetSince, tickTrace>>

vars == <<parseVars, serverVars, playerVars>>

-----------------------------------------------------------------------------
(* Helpers on sequences                                                    *)

Min(S) == CHOOSE x \in S : \A y \in S : x <= y

Max(S) == CHOOSE x \in S : \A y \in S : x >= y

-----------------------------------------------------------------------------
(* Characters.  The alphabet of the model has no line terminator other     *)
(* than "\n", no exponent letter and no "Infinity" token.                  *)

DigitChars == <<"0", "1", "2", "3", "4", "5", "6", "7", "8", "9">>

Digits == {DigitChars[i] : i \in 1..10}

\* \s of the regular expressions and of String.prototype.trim
Whitespace == {" ", "\t"}

DigitVal(c) == (CHOOSE i \in 1..10 : DigitChars[i] = c) - 1

\* parseInt on a string of decimal digits
RECURSIVE ParseInt(_)
ParseInt(ds) ==
    IF ds = <<>> THEN 0
    ELSE ParseInt(SubSeq(ds, 1, Len(ds) - 1)) * 10 + DigitVal(ds[Len(ds)])

\* String.prototype.trim
Trim(s) ==
    LET nonWs == {i \in 1..Len(s) : s[i] \notin Whitespace}
    IN  IF nonWs = {} THEN <<>> ELSE SubSeq(s, Min(nonWs), Max(nonWs))

\* length of the longest run of characters of set cs that starts at s[i]
Run(s, i, cs) ==
    LET stop == {j \in i..Len(s) : s[j] \notin cs}
    IN  IF stop = {} THEN Len(s) - i + 1 ELSE Min(stop) - i

\* content.split('\n')
RECURSIVE SplitLines(_)
SplitLines(c) ==
    LET nl == {i \in 1..Len(c) : c[i] = "\n"}
    IN  IF nl = {} THEN <<c>>
        ELSE <<SubSeq(c, 1, Min(nl) - 1)>>
                 \o SplitLines(SubSeq(c, Min(nl) + 1, Len(c)))

\* line.split(/\s+/) for a trimmed, non-empty line
RECURSIVE SplitWs(_)
SplitWs(s) ==
    LET n == Run(s, 1, {s[i] : i \in 1..Len(s)} \ Whitespace)
        w == Run(s, n + 1, Whitespace)
    IN  IF n = Len(s) THEN <<s>>
        ELSE <<SubSeq(s, 1, n)>> \o SplitWs(SubSeq(s, n + w + 1, Len(s)))

\* parts.join(' ')
RECURSIVE JoinSpace(_)
JoinSpace(parts) ==
    IF parts = <<>> THEN <<>>
    ELSE IF Len(parts) = 1 THEN parts[1]
    ELSE parts[1] \o <<" ">> \o JoinSpace(Tail(parts))

-----------------------------------------------------------------------------
(* lrcRegex: "[", digits, ":", digits, ".", digits, "]", then optional     *)
(* whitespace and the rest of the line; not anchored, so the leftmost      *)
(* place of the line where it fits is the match.                           *)

\* the positions of ':', '.' and ']' when the pattern is tried at s[p]
LrcShape(s, p) ==
    LET n1 == Run(s, p + 1, Digits)
        c  == p + 1 + n1
        n2 == Run(s, c + 1, Digits)
        d  == c + 1 + n2
        n3 == Run(s, d + 1, Digits)
        b  == d + 1 + n3
    IN  [ok |-> /\ s[p] = "["
                /\ n1 >= 1 /\ c <= Len(s) /\ s[c] = ":"
                /\ n2 >= 1 /\ d <= Len(s) /\ s[d] = "."
                /\ n3 >= 1 /\ b <= Len(s) /\ s[b] = "]",
         colon |-> c, dot |-> d, close |-> b]

\* line.match(lrcRegex): the leftmost match, with its four groups
LrcMatch(s) ==
    LET ps == {p \in 1..Len(s) : LrcShape(s, p).ok}
    IN  IF ps = {} THEN [matched |-> FALSE]
        ELSE LET p  == Min(ps)
                 sh == LrcShape(s, p)
                 w  == Run(s, sh.close + 1, Whitespace)
             IN  [matched |-> TRUE,
                  index |-> p,
                  g1 |-> SubSeq(s, p + 1, sh.colon - 1),
                  g2 |-> SubSeq(s, sh.colon + 1, sh.dot - 1),
                  g3 |-> SubSeq(s, sh.dot + 1, sh.close - 1),
                  g4 |-> SubSeq(s, sh.close + 1 + w, Len(s))]

\* the fractional group read as tenths
LrcTimestampTenths(minutes, seconds, milliseconds) ==
    100 * (minutes * 60 + seconds) + 10 * milliseconds

\* minutes * 60 + seconds + milliseconds / 100, in hundredths of a second
LrcTimestamp(minutes, seconds, milliseconds) ==
    100 * (minutes * 60 + seconds) + milliseconds

-----------------------------------------------------------------------------
(* parseFloat, on a token without whitespace: an optional sign, digits,    *)
(* an optional fraction; the longest such prefix is the number and the     *)
(* rest of the token is ignored.  The value is in hundredths; the model's  *)
(* tokens have at most two fractional digits.                              *)

ParseFloat(tok) ==
    LET sg == IF Len(tok) > 0 /\ tok[1] \in {"+", "-"} THEN 1 ELSE 0
        ni == Run(tok, sg + 1, Digits)
        dt == sg + ni + 1
        hasDot == dt <= Len(tok) /\ tok[dt] = "."
        nf == IF hasDot THEN Run(tok, dt + 1, Digits) ELSE 0
        iv == ParseInt(SubSeq(tok, sg + 1, sg + ni))
        fv == IF nf = 0 THEN 0
              ELSE IF nf = 1 THEN 10 * DigitVal(tok[dt + 1])
              ELSE 10 * DigitVal(tok[dt + 1]) + DigitVal(tok[dt + 2])
        mag == 100 * iv + fv
    IN  IF ni = 0 /\ nf = 0 THEN [nan |-> TRUE, val |-> 0]
        ELSE [nan |-> FALSE,
              val |-> IF sg = 1 /\ tok[1] = "-" THEN 0 - mag ELSE mag]

-----------------------------------------------------------------------------
(* Array.prototype.sort((a, b) => a.timestamp - b.timestamp): a stable     *)
(* sort (ECMAScript 2019), here by insertion from the left.                *)

\* x goes after every element whose timestamp is <= its own
InsertByTimestamp(x, s) ==
    LET k == Cardinality({i \in 1..Len(s) : s[i].timestamp <= x.timestamp})
    IN  SubSeq(s, 1, k) \o <<x>> \o SubSeq(s, k + 1, Len(s))

\* a sort that puts x before the elements equal to it
RECURSIVE SortReversed(_)
SortReversed(s) ==
    IF s = <<>> THEN <<>>
    ELSE LET r == SortReversed(SubSeq(s, 1, Len(s) - 1))
             x == s[Len(s)]
             k == Cardinality({i \in 1..Len(r) : r[i].timestamp < x.timestamp})
         IN  SubSeq(r, 1, k) \o <<x>> \o SubSeq(r, k + 1, Len(r))

RECURSIVE SortByTimestamp(_)
SortByTimestamp(s) ==
    IF s = <<>> THEN <<>>
    ELSE InsertByTimestamp(s[Len(s)], SortByTimestamp(SubSeq(s, 1, Len(s) - 1)))

-----------------------------------------------------------------------------
(* parseLyrics                                                             *)

\* the first loop's push for line i (at most one element)
LrcPush(lines, i) ==
    LET line == Trim(lines[i])
        match == LrcMatch(line)
    IN  IF line = <<>> \/ ~match.matched THEN <<>>
        ELSE LET text == Trim(match.g4)
             IN  IF text = <<>> THEN <<>>
                 ELSE <<[timestamp |-> LrcTimestamp(ParseInt(match.g1),
                                                    ParseInt(match.g2),
                                                    ParseInt(match.g3)),
                         text |-> text,
                         lineNumber |-> i]>>

\* a flag that only a tag line with text sets
HasLrcText(lines) ==
    \E i \in 1..Len(lines) :
        /\ Trim(lines[i]) # <<>>
        /\ LrcMatch(Trim(lines[i])).matched
        /\ Trim(LrcMatch(Trim(lines[i])).g4) # <<>>

\* hasLrcFormat after the first loop
HasLrcFormat(lines) ==
    \E i \in 1..Len(lines) :
        Trim(lines[i]) # <<>> /\ LrcMatch(Trim(lines[i])).matched

\* a second loop that keeps a line without a usable timestamp at time 0
PlainPushKeeping(lines, i) ==
    LET line == Trim(lines[i])
    IN  IF line = <<>> THEN <<>>
        ELSE LET parts == SplitWs(line)
                 ts == ParseFloat(parts[1])
             IN  IF Len(parts) >= 2 /\ ~ts.nan /\ ts.val >= 0
                 THEN <<[timestamp |-> ts.val,
                         text |-> JoinSpace(Tail(parts)),
                         lineNumber |-> i]>>
                 ELSE <<[timestamp |-> 0, text |-> line, lineNumber |-> i]>>

\* the second loop's push for line i (at most one element)
PlainPush(lines, i) ==
    LET line == Trim(lines[i])
    IN  IF line = <<>> THEN <<>>
        ELSE LET parts == SplitWs(line)
                 ts == ParseFloat(parts[1])
             IN  IF Len(parts) >= 2 /\ ~ts.nan /\ ts.val >= 0
                 THEN <<[timestamp |-> ts.val,
                         text |-> JoinSpace(Tail(parts)),
                         lineNumber |-> i]>>
                 ELSE <<>>

RECURSIVE LrcLoop(_, _)
LrcLoop(lines, i) ==
    IF i > Len(lines) THEN <<>>
    ELSE LrcPush(lines, i) \o LrcLoop(lines, i + 1)

RECURSIVE PlainLoop(_, _)
PlainLoop(lines, i) ==
    IF i > Len(lines) THEN <<>>
    ELSE PlainPush(lines, i) \o PlainLoop(lines, i + 1)

\* a loop that falls back line by line instead of for the whole input
RECURSIVE PerLineLoop(_, _)
PerLineLoop(lines, i) ==
    IF i > Len(lines) THEN <<>>
    ELSE (IF LrcMatch(Trim(lines[i])).matched THEN LrcPush(lines, i)
          ELSE PlainPush(lines, i)) \o PerLineLoop(lines, i + 1)

\* the array before lyrics.sort
CollectPerLine(lines) == PerLineLoop(lines, 1)

Collect(lines) ==
    IF HasLrcFormat(lines) THEN LrcLoop(lines, 1) ELSE PlainLoop(lines, 1)

parseLyrics(c) == SortByTimestamp(Collect(SplitLines(c)))


-----------------------------------------------------------------------------
(* The upload server: registry, startup scan, POST /upload handler.        *)
(* A file's bytes are a content number; every stored file has its own      *)
(* name (multer prefixes the name with Date.now()).                        *)

MaxRequests == 2

MaxStored == 1

\* two different byte contents
Contents == {1, 2}

Fields == {"audio", "lyrics"}

Null == [null |-> TRUE]

NullHash == <<"null">>

\* crypto.createHash('sha256').update(fileBuffer).digest('hex')
Sha256(c) == <<"sha256", c>>

\* the text of a file with bytes c, as fs.readFileSync(path, 'utf8') gives it
FileText(c) == <<DigitChars[(c % 10) + 1], " ", "b", "y">>

\* the name multer gives the file of field f of request r
UploadPath(r, f) == <<r, f>>

\* the name of the k-th file found in uploads/ at startup
StoredPath(k) == <<0, k>>

\* the state of the other specifications' variables
ServerIdle ==
    /\ started = FALSE
    /\ disk = <<>>
    /\ fileHashes = <<>>
    /\ requests = <<>>
    /\ responses = <<>>
    /\ handled = <<>>
    /\ setLog = <<>>

ParseIdle ==
    /\ content = <<>>
    /\ parsed = <<>>
    /\ parsePhase = "idle"

NoTick ==
    [ticked |-> FALSE, n |-> 0, resolved |-> -1, previous |-> -1,
     changed |-> FALSE, afterReset |-> FALSE]

PlayerIdle ==
    /\ lyrics = <<>>
    /\ currentTime = [kind |-> "finite", v |-> 0]
    /\ playPromises = 0
    /\ isPlaying = FALSE
    /\ currentLyricIndex = -1
    /\ animationFrame = 0
    /\ rafQueue = <<>>
    /\ displayText = <<>>
    /\ lyricsActive = FALSE
    /\ lastTick = NoTick
    /\ resetSince = FALSE
    /\ tickTrace = <<>>

\* calculateFileHash: the digest of the file's bytes, null when the read fails
calculateFileHash(d, path) ==
    IF path \in DOMAIN d /\ d[path].readable
    THEN Sha256(d[path].content)
    ELSE NullHash

\* a lookup that never finds a record
findNoDuplicate(fh, d, path) == Null

findDuplicateFile(fh, d, path) ==
    LET hash == calculateFileHash(d, path)
    IN  IF hash = NullHash THEN Null
        ELSE IF hash \in DOMAIN fh THEN fh[hash]
        ELSE Null

\* registerFile: the fileInfo it builds, or Null when the hash fails
registerFileInfo(d, path, originalName, now) ==
    LET hash == calculateFileHash(d, path)
    IN  IF hash = NullHash THEN Null
        ELSE [filename |-> path, originalName |-> originalName,
              uploadDate |-> now, hash |-> hash]

\* registerFile: the Map after fileHashes.set(hash, fileInfo)
registerFile(fh, d, path, originalName, now) ==
    LET fileInfo == registerFileInfo(d, path, originalName, now)
    IN  IF fileInfo = Null THEN fh
        ELSE [h \in DOMAIN fh \cup {fileInfo.hash} |->
                 IF h = fileInfo.hash THEN fileInfo ELSE fh[h]]

\* the entry of setLog for a registerFile call
RegisterEntry(fh, d, path, originalName, now, r, f) ==
    LET fileInfo == registerFileInfo(d, path, originalName, now)
    IN  IF fileInfo = Null THEN <<>>
        ELSE <<[via |-> "registerFile", by |-> r, field |-> f,
                hash |-> fileInfo.hash, existed |-> fileInfo.hash \in DOMAIN fh,
                before |-> IF fileInfo.hash \in DOMAIN fh
                           THEN fh[fileInfo.hash] ELSE Null,
                error |-> "none", record |-> fileInfo,
                after |-> registerFile(fh, d, path, originalName, now)
                              [fileInfo.hash]]>>

\* fs.unlinkSync(path)
unlinkSync(d, path) == [q \in DOMAIN d \ {path} |-> d[q]]

\* a scan that gives up at the first file it cannot hash
RECURSIVE ScanAborting(_, _, _)
ScanAborting(fh, d, k) ==
    IF StoredPath(k) \notin DOMAIN d THEN fh
    ELSE IF ~d[StoredPath(k)].readable THEN fh
    ELSE LET hash == Sha256(d[StoredPath(k)].content)
         IN  IF hash \notin DOMAIN fh
             THEN ScanAborting([h \in DOMAIN fh \cup {hash} |->
                                   IF h = hash
                                   THEN [filename |-> StoredPath(k),
                                         originalName |-> StoredPath(k),
                                         uploadDate |-> 0, hash |-> hash]
                                   ELSE fh[h]], d, k + 1)
             ELSE ScanAborting(fh, d, k + 1)

\* a scan in which a later file of the same bytes takes the record over
RECURSIVE ScanOverwriting(_, _, _)
ScanOverwriting(fh, d, k) ==
    IF StoredPath(k) \notin DOMAIN d THEN fh
    ELSE LET hash == IF d[StoredPath(k)].readable
                     THEN Sha256(d[StoredPath(k)].content) ELSE NullHash
         IN  IF hash # NullHash
             THEN ScanOverwriting([h \in DOMAIN fh \cup {hash} |->
                                      IF h = hash
                                      THEN [filename |-> StoredPath(k),
                                            originalName |-> StoredPath(k),
                                            uploadDate |-> 0, hash |-> hash]
                                      ELSE fh[h]], d, k + 1)
             ELSE ScanOverwriting(fh, d, k + 1)

\* initializeFileHashes: the loop over fs.readdirSync(uploadsDir), from
\* the k-th name on
RECURSIVE ScanFrom(_, _, _)
ScanFrom(fh, d, k) ==
    IF StoredPath(k) \notin DOMAIN d THEN fh
    ELSE LET hash == calculateFileHash(d, StoredPath(k))
         IN  IF hash # NullHash /\ hash \notin DOMAIN fh
             THEN ScanFrom([h \in DOMAIN fh \cup {hash} |->
                               IF h = hash
                               THEN [filename |-> StoredPath(k),
                                     originalName |-> StoredPath(k),
                                     uploadDate |-> 0, hash |-> hash]
                               ELSE fh[h]], d, k + 1)
             ELSE ScanFrom(fh, d, k + 1)

RECURSIVE ScanLog(_, _, _)
ScanLog(fh, d, k) ==
    IF StoredPath(k) \notin DOMAIN d THEN <<>>
    ELSE LET hash == calculateFileHash(d, StoredPath(k))
             next == ScanFrom(fh, d, k)
         IN  IF hash # NullHash /\ hash \notin DOMAIN fh
             THEN <<[via |-> "initializeFileHashes", by |-> 0, field |-> "none",
                     hash |-> hash, existed |-> FALSE, before |-> Null,
                     error |-> "none",
                     record |-> [filename |-> StoredPath(k),
                                 originalName |-> StoredPath(k),
                                 uploadDate |-> 0, hash |-> hash],
                     after |-> [filename |-> StoredPath(k),
                                originalName |-> StoredPath(k),
                                uploadDate |-> 0, hash |-> hash]]>>
                  \o ScanLog([h \in DOMAIN fh \cup {hash} |->
                                 IF h = hash THEN next[hash] ELSE fh[h]],
                             d, k + 1)
             ELSE ScanLog(fh, d, k + 1)

\* the uploads directories the server may find at startup: files
\* StoredPath(1..n), n <= MaxStored, of any bytes, readable or not
DisksUpTo(m) ==
    UNION {[{StoredPath(k) : k \in 1..n} ->
               [content : Contents, readable : BOOLEAN]] : n \in 0..m}

StoredDisks == DisksUpTo(MaxStored)

InitServerWith(disks) ==
    /\ started = FALSE
    /\ disk \in disks
    /\ fileHashes = <<>>
    /\ requests = <<>>
    /\ responses = <<>>
    /\ handled = <<>>
    /\ setLog = <<>>
    /\ ParseIdle
    /\ PlayerIdle

InitServer == InitServerWith(StoredDisks)

\* initializeFileHashes(), then app.listen
InitializeFileHashes ==
    /\ ~started
    /\ started' = TRUE
    /\ fileHashes' = ScanFrom(fileHashes, disk, 1)
    /\ setLog' = setLog \o ScanLog(fileHashes, disk, 1)
    /\ UNCHANGED <<disk, requests, responses, handled>>
    /\ UNCHANGED <<parseVars, playerVars>>

\* a POST /upload arrives with an audio file of bytes a and a lyrics file
\* of bytes l, and multer writes both to uploads/ (the writes of several
\* requests overlap: any number of requests are stored before a handler
\* runs); lr tells whether the server can read the lyrics file back
ReceiveUpload(a, l, lr) ==
    /\ started
    /\ Len(requests) < MaxRequests
    /\ LET r == Len(requests) + 1
       IN  disk' = [q \in DOMAIN disk \cup {UploadPath(r, f) : f \in Fields} |->
                       IF q = UploadPath(r, "audio")
                       THEN [content |-> a, readable |-> TRUE]
                       ELSE IF q = UploadPath(r, "lyrics")
                       THEN [content |-> l, readable |-> lr]
                       ELSE disk[q]]
    /\ requests' = Append(requests,
                          [audio |-> a, lyrics |-> l, lyricsReadable |-> lr,
                           done |-> FALSE])
    /\ UNCHANGED <<started, fileHashes, responses, handled, setLog>>
    /\ UNCHANGED <<parseVars, playerVars>>

\* fs.readFileSync(path, 'utf8'): the text, or Null when it throws
readFileSync(d, path) ==
    IF path \in DOMAIN d /\ d[path].readable
    THEN [null |-> FALSE, text |-> FileText(d[path].content)]
    ELSE Null

\* The body of the POST /upload handler for request r, which runs to its
\* end without yielding: the registry, the directory, the log and the
\* answer it leaves.  The answer carries the text that parseLyrics is
\* applied to (SpecParse is the model of that call).
UploadHandler(r) ==
    LET now == Len(handled) + 1
        audioPath == UploadPath(r, "audio")
        lyricsPath == UploadPath(r, "lyrics")
        duplicateAudio == findDuplicateFile(fileHashes, disk, audioPath)
        duplicateLyrics == findDuplicateFile(fileHashes, disk, lyricsPath)
        \* handle audio file
        fh1 == IF duplicateAudio # Null THEN fileHashes
               ELSE registerFile(fileHashes, disk, audioPath, audioPath, now)
        log1 == IF duplicateAudio # Null THEN <<>>
                ELSE RegisterEntry(fileHashes, disk, audioPath, audioPath,
                                   now, r, "audio")
        disk1 == IF duplicateAudio # Null THEN unlinkSync(disk, audioPath)
                 ELSE disk
        finalAudioUrl == IF duplicateAudio # Null THEN duplicateAudio.filename
                         ELSE audioPath
        audioInfo == IF duplicateAudio # Null
                     THEN [isDuplicate |-> TRUE,
                           originalFile |-> duplicateAudio.filename,
                           originalName |-> duplicateAudio.originalName,
                           uploadDate |-> duplicateAudio.uploadDate]
                     ELSE [isDuplicate |-> FALSE]
        \* handle lyrics file
        disk2 == IF duplicateLyrics # Null THEN unlinkSync(disk1, lyricsPath)
                 ELSE disk1
        lyricsContent == IF duplicateLyrics # Null
                         THEN readFileSync(disk2, duplicateLyrics.filename)
                         ELSE readFileSync(disk1, lyricsPath)
        fh2 == IF duplicateLyrics # Null \/ lyricsContent = Null THEN fh1
               ELSE registerFile(fh1, disk1, lyricsPath, lyricsPath, now)
        log2 == IF duplicateLyrics # Null \/ lyricsContent = Null THEN <<>>
                ELSE RegisterEntry(fh1, disk1, lyricsPath, lyricsPath,
                                   now, r, "lyrics")
        lyricsInfo == IF duplicateLyrics # Null
                      THEN [isDuplicate |-> TRUE,
                            originalFile |-> duplicateLyrics.filename,
                            originalName |-> duplicateLyrics.originalName,
                            uploadDate |-> duplicateLyrics.uploadDate]
                      ELSE [isDuplicate |-> FALSE]
        response ==
            IF lyricsContent = Null
            THEN [status |-> IF duplicateLyrics # Null THEN 500 ELSE 400,
                  success |-> FALSE]
            ELSE [status |-> 200, success |-> TRUE,
                  audioUrl |-> finalAudioUrl,
                  lyricsContent |-> lyricsContent.text,
                  audio |-> audioInfo,
                  lyricsDup |-> lyricsInfo]
    IN  [fileHashes |-> fh2, disk |-> disk2, log |-> log1 \o log2,
         response |-> response]

\* the handler of request r runs, once multer has stored both its files
HandleUpload(r) ==
    /\ r \in 1..Len(requests)
    /\ ~requests[r].done
    /\ LET out == UploadHandler(r)
       IN  /\ fileHashes' = out.fileHashes
           /\ disk' = out.disk
           /\ setLog' = setLog \o out.log
           /\ responses' = [q \in DOMAIN responses \cup {r} |->
                               IF q = r THEN out.response ELSE responses[q]]
    /\ handled' = Append(handled, r)
    /\ requests' = [requests EXCEPT ![r].done = TRUE]
    /\ UNCHANGED started
    /\ UNCHANGED <<parseVars, playerVars>>

NextServer ==
    \/ InitializeFileHashes
    \/ \E a, l \in Contents, lr \in BOOLEAN : ReceiveUpload(a, l, lr)
    \/ \E r \in 1..MaxRequests : HandleUpload(r)

SpecServer == InitServer /\ [][NextServer]_vars

-----------------------------------------------------------------------------
(* Properties of the registry and of the upload handler                    *)

\* request r was answered 200
Answered(r) == r \in DOMAIN responses /\ responses[r].status = 200

\* the place of request r in the order the handlers ran
HandledAt(r) == CHOOSE k \in 1..Len(handled) : handled[k] = r

\* duplicateInfo.audio or duplicateInfo.lyrics of the answer to r
DuplicateInfo(r, f) ==
    IF f = "audio" THEN responses[r].audio ELSE responses[r].lyricsDup

\* the handler of r called fileHashes.set for its file of field f
Registered(r, f) ==
    \E k \in 1..Len(setLog) : setLog[k].by = r /\ setLog[k].field = f

\* C1: after any sequence of upload requests a FileRecord is created at
\* most once per content hash, and the record the registry holds for a
\* hash is the one first created for it: it is never replaced or altered.
C1_RecordCreatedOnce ==
    /\ \A j, k \in 1..Len(setLog) :
          j # k => setLog[j].hash # setLog[k].hash
    /\ \A h \in DOMAIN fileHashes :
          \A k \in 1..Len(setLog) :
              (setLog[k].hash = h
                  /\ \A j \in 1..(k - 1) : setLog[j].hash # h)
                 => fileHashes[h] = setLog[k].record

\* C2: register for a digest that already has a record fails with a
\* DuplicateHashError and leaves the record in place; for a digest without
\* a record it inserts the new record.
C2_RegisterRejectsDuplicate ==
    \A k \in 1..Len(setLog) :
        setLog[k].via = "registerFile" =>
            IF setLog[k].existed
            THEN /\ setLog[k].error = "DuplicateHashError"
                 /\ setLog[k].after = setLog[k].before
            ELSE /\ setLog[k].error = "none"
                 /\ setLog[k].after = setLog[k].record

-----------------------------------------------------------------------------
(* SpecParse: a lyrics file grows line by line and is then parsed.         *)

MaxLines == 3

LinePool ==
    { <<"[", "0", "0", ":", "0", "1", ".", "5", "0", "]", " ", "h", "i">>,
      <<"[", "0", "0", ":", "0", "1", ".", "5", "]", "y", "o">>,
      <<" ", "[", "0", "1", ":", "0", "2", ".", "0", "3", "]", " ">>,
      <<"a", " ", "[", "0", ":", "3", ".", "1", "2", "3", "]", "z">>,
      <<"0", ".", "5", " ", " ", "h", "i", "\t", "a">>,
      <<"2", " ", "b", "y">>,
      <<"1", ".", "5", " ", "u">>,
      <<"x", "y", " ", "h", "i">>,
      <<"5", "a", "b", " ", "h", "i">>,
      <<"-", "1", " ", "h", "i">>,
      <<"7">>,
      <<" ", "\t">>,
      <<>> }

InitParse ==
    /\ content \in LinePool
    /\ parsed = <<>>
    /\ parsePhase = "writing"
    /\ ServerIdle
    /\ PlayerIdle

\* one more physical line is appended to the file
AppendLine(l) ==
    /\ parsePhase = "writing"
    /\ Len(SplitLines(content)) < MaxLines
    /\ content' = content \o <<"\n">> \o l
    /\ UNCHANGED <<parsed, parsePhase>>
    /\ UNCHANGED <<serverVars, playerVars>>

\* finalLyricsData = parseLyrics(lyricsContent)
ParseContent ==
    /\ parsePhase = "writing"
    /\ parsed' = parseLyrics(content)
    /\ parsePhase' = "parsed"
    /\ UNCHANGED content
    /\ UNCHANGED <<serverVars, playerVars>>

NextParse ==
    \/ \E l \in LinePool : AppendLine(l)
    \/ ParseContent

SpecParse == InitParse /\ [][NextParse]_vars


-----------------------------------------------------------------------------
(* Properties of parseLyrics, stated on the file's physical lines          *)

SrcLines == SplitLines(content)

\* line i is non-blank and the tag pattern fits somewhere in it
MatchesTag(i) ==
    Trim(SrcLines[i]) # <<>> /\ LrcMatch(Trim(SrcLines[i])).matched

AnyTag == \E i \in 1..Len(SrcLines) : MatchesTag(i)

ParsedLineNumbers == {parsed[k].lineNumber : k \in 1..Len(parsed)}

\* the whole token is a decimal literal: sign, digits, fraction
IsNumberToken(tok) ==
    LET sg == IF Len(tok) > 0 /\ tok[1] \in {"+", "-"} THEN 1 ELSE 0
        ni == Run(tok, sg + 1, Digits)
        dt == sg + ni + 1
        hasDot == dt <= Len(tok) /\ tok[dt] = "."
        nf == IF hasDot THEN Run(tok, dt + 1, Digits) ELSE 0
    IN  /\ ni + nf >= 1
        /\ sg + ni + (IF hasDot THEN 1 + nf ELSE 0) = Len(tok)

\* line i has a leading non-negative number and at least one more token
FallbackAccepts(i) ==
    LET line == Trim(SrcLines[i])
    IN  /\ line # <<>>
        /\ Len(SplitWs(line)) >= 2
        /\ IsNumberToken(SplitWs(line)[1])
        /\ ParseFloat(SplitWs(line)[1]).val >= 0

\* C4: format detection is global.  When some non-blank line matches the
\* tag pattern, every returned LyricLine comes from a line that matches it
\* (a non-matching line contributes nothing, whatever the fallback rule
\* would say); lines are taken by the fallback rule only when no line of
\* the input matches, and then every line that rule accepts is returned.
C4_GlobalDetection ==
    parsePhase = "parsed" =>
        /\ AnyTag => \A i \in ParsedLineNumbers : MatchesTag(i)
        /\ (\E i \in ParsedLineNumbers : ~MatchesTag(i)) => ~AnyTag
        /\ ~AnyTag =>
              \A i \in 1..Len(SrcLines) :
                  FallbackAccepts(i) => i \in ParsedLineNumbers

\* a mixed file: a tag line was returned, and a line the fallback rule
\* accepts was dropped
C4_Witness ==
    /\ parsePhase = "parsed"
    /\ parsed # <<>>
    /\ \E i \in 1..Len(SrcLines) :
           ~MatchesTag(i) /\ FallbackAccepts(i) /\ i \notin ParsedLineNumbers

\* C5: the returned sequence is ascending by timestamp, and lines with
\* equal timestamps are in source order (ascending lineNumber); every
\* collected line is returned exactly once.
C5_SortedStable ==
    parsePhase = "parsed" =>
        /\ \A j, k \in 1..Len(parsed) :
              j < k =>
                  /\ parsed[j].timestamp <= parsed[k].timestamp
                  /\ parsed[j].timestamp = parsed[k].timestamp
                        => parsed[j].lineNumber < parsed[k].lineNumber
        /\ Cardinality(ParsedLineNumbers) = Len(parsed)

\* the sort moved a later line before an earlier one and kept two lines
\* of equal timestamp
C5_Witness ==
    /\ parsePhase = "parsed"
    /\ \E j, k \in 1..Len(parsed) :
           j < k /\ parsed[j].timestamp = parsed[k].timestamp
    /\ \E j, k \in 1..Len(parsed) :
           j < k /\ parsed[j].lineNumber > parsed[k].lineNumber

TagOneDigit == <<"[", "0", "0", ":", "0", "1", ".", "5", "]", "y", "o">>

TagTwoDigits ==
    <<"[", "0", "0", ":", "0", "1", ".", "5", "0", "]", " ", "h", "i">>

\* C6: a tag line [m:s.f] has the timestamp 6000*m + 100*s + f hundredths,
\* f being the integer value of the fractional digits whatever their
\* number: [00:01.5] is 105 hundredths (1.05 s), [00:01.50] is 150.
C6_TagTimestamp ==
    (parsePhase = "parsed" /\ AnyTag) =>
        \A k \in 1..Len(parsed) :
            LET src == SrcLines[parsed[k].lineNumber]
                m == LrcMatch(Trim(src))
            IN  /\ parsed[k].timestamp
                      = 6000 * ParseInt(m.g1) + 100 * ParseInt(m.g2)
                            + ParseInt(m.g3)
                /\ src = TagOneDigit => parsed[k].timestamp = 105
                /\ src = TagTwoDigits => parsed[k].timestamp = 150

\* both spellings of the same instant were parsed from one file
C6_Witness ==
    /\ parsePhase = "parsed"
    /\ \E j, k \in 1..Len(parsed) :
           /\ SrcLines[parsed[j].lineNumber] = TagOneDigit
           /\ SrcLines[parsed[k].lineNumber] = TagTwoDigits

\* C7: in fallback mode a non-blank line yields a LyricLine if and only
\* if it has at least two tokens and its leading token is a valid
\* non-negative number; the timestamp is that number and the text is the
\* other tokens joined by single spaces.
C7_FallbackIff ==
    (parsePhase = "parsed" /\ ~AnyTag) =>
        /\ \A i \in 1..Len(SrcLines) :
              Trim(SrcLines[i]) # <<>> =>
                  (i \in ParsedLineNumbers <=> FallbackAccepts(i))
        /\ \A k \in 1..Len(parsed) :
              LET parts == SplitWs(Trim(SrcLines[parsed[k].lineNumber]))
              IN  /\ parsed[k].timestamp = ParseFloat(parts[1]).val
                  /\ parsed[k].text = JoinSpace(Tail(parts))


-----------------------------------------------------------------------------
(* The karaoke player page (KaraokePlayer).  Times are JavaScript numbers: *)
(* a finite value, NaN, Infinity or -Infinity.  Animation-frame callbacks  *)
(* run in the order they were requested.                                   *)

MaxLyrics == 3

MaxPending == 3

MaxPromises == 1

Finite(n) == [kind |-> "finite", v |-> n]

NaN == [kind |-> "NaN", v |-> 0]

PosInfinity == [kind |-> "Infinity", v |-> 0]

NegInfinity == [kind |-> "-Infinity", v |-> 0]

\* the values audioElement.currentTime is read as
TimeValues == {Finite(n) : n \in {-1, 0, 5, 10, 25}}
                  \cup {NaN, PosInfinity, NegInfinity}

\* the timestamps of the lyric lines of a page
TimestampValues == {0, 10}

\* the text of the k-th line of the page's lyrics
LineText(k) == <<"line", k>>

\* JSON.parse(lyricsData): what the server sent, sorted by timestamp
LyricsData ==
    UNION {{[k \in 1..n |-> [timestamp |-> ts[k], text |-> LineText(k)]] :
              ts \in {t \in [1..n -> TimestampValues] :
                         \A j, k \in 1..n : j < k => t[j] <= t[k]}} :
           n \in 0..MaxLyrics}

\* a comparison that leaves out the line whose timestamp is the time itself
GreaterThan(t, ts) ==
    \/ t.kind = "Infinity"
    \/ t.kind = "finite" /\ t.v > ts

\* currentTime >= timestamp, for a finite timestamp
GreaterOrEqual(t, ts) ==
    \/ t.kind = "Infinity"
    \/ t.kind = "finite" /\ t.v >= ts

\* a scan from the start that stops at the first line reached
FindFirstIndex(lyr, t) ==
    LET hit == {i \in 0..(Len(lyr) - 1) : GreaterOrEqual(t, lyr[i + 1].timestamp)}
    IN  IF hit = {} THEN -1 ELSE Min(hit)

\* updateLyrics: the loop from i = upto down to 0, with its break
RECURSIVE ScanDown(_, _, _)
ScanDown(lyr, t, i) ==
    IF i < 0 THEN -1
    ELSE IF GreaterOrEqual(t, lyr[i + 1].timestamp) THEN i
    ELSE ScanDown(lyr, t, i - 1)

\* updateLyrics: newLyricIndex
FindLyricIndex(lyr, t) == ScanDown(lyr, t, Len(lyr) - 1)

\* a test that takes every tick for a change
AlwaysChanged(newLyricIndex, retained) == TRUE

\* a test that signals again on every tick that finds a line
ChangedOrShown(newLyricIndex, retained) ==
    newLyricIndex # retained \/ newLyricIndex >= 0

\* updateLyrics: newLyricIndex !== this.currentLyricIndex
LyricChanged(newLyricIndex, retained) == newLyricIndex # retained

\* the handle requestAnimationFrame returns: one that no pending callback
\* and not this.animationFrame holds
FreshHandle(af, queue) ==
    Min({n \in 1..(2 * Len(queue) + 3) :
            n # af /\ \A k \in 1..Len(queue) : queue[k].id # n})

\* this.animationFrame = requestAnimationFrame(fn)
requestAnimationFrame(p, fn) ==
    LET id == FreshHandle(p.animationFrame, p.rafQueue)
    IN  [p EXCEPT !.rafQueue = Append(@, [id |-> id, fn |-> fn]),
                  !.animationFrame = id]

\* cancelAnimationFrame(id)
cancelAnimationFrame(queue, id) ==
    SelectSeq(queue, LAMBDA e : e.id # id)

\* the fields of the player that its methods write
Player ==
    [isPlaying |-> isPlaying, currentLyricIndex |-> currentLyricIndex,
     animationFrame |-> animationFrame, rafQueue |-> rafQueue,
     displayText |-> displayText, lyricsActive |-> lyricsActive,
     lastTick |-> lastTick, resetSince |-> resetSince]

\* an updateLyrics without the test of isPlaying
updateLyricsUnguarded(p, lyr, t) ==
    LET newLyricIndex == FindLyricIndex(lyr, t)
        changed == LyricChanged(newLyricIndex, p.currentLyricIndex)
        shown == IF ~changed THEN p
                 ELSE [p EXCEPT
                         !.currentLyricIndex = newLyricIndex,
                         !.displayText =
                             IF newLyricIndex >= 0
                             THEN lyr[newLyricIndex + 1].text ELSE <<>>,
                         !.lyricsActive = newLyricIndex >= 0]
        logged == [shown EXCEPT
                     !.lastTick =
                         [ticked |-> TRUE, n |-> 1 - p.lastTick.n,
                          resolved |-> newLyricIndex,
                          previous |-> p.lastTick.resolved,
                          changed |-> changed,
                          afterReset |-> p.resetSince],
                     !.resetSince = FALSE]
    IN  requestAnimationFrame(logged, "updateLyrics")

\* updateLyrics()
updateLyrics(p, lyr, t) ==
    IF ~p.isPlaying THEN p
    ELSE LET newLyricIndex == FindLyricIndex(lyr, t)
             changed == LyricChanged(newLyricIndex, p.currentLyricIndex)
             shown == IF ~changed THEN p
                      ELSE [p EXCEPT
                              !.currentLyricIndex = newLyricIndex,
                              !.displayText =
                                  IF newLyricIndex >= 0
                                  THEN lyr[newLyricIndex + 1].text ELSE <<>>,
                              !.lyricsActive = newLyricIndex >= 0]
             logged == [shown EXCEPT
                          !.lastTick =
                              [ticked |-> TRUE, n |-> 1 - p.lastTick.n,
                               resolved |-> newLyricIndex,
                               previous |-> p.lastTick.resolved,
                               changed |-> changed,
                               afterReset |-> p.resetSince],
                          !.resetSince = FALSE]
         IN  requestAnimationFrame(logged, "updateLyrics")

\* drawVisualizer(): it draws when playing with an analyser, and requests
\* the next frame in either case
drawVisualizer(p) == requestAnimationFrame(p, "drawVisualizer")

\* a pause that also forgets the line on display
pauseForgetting(p) ==
    [p EXCEPT !.isPlaying = FALSE,
              !.currentLyricIndex = -1,
              !.rafQueue = IF p.animationFrame # 0
                           THEN SelectSeq(@, LAMBDA e : e.id # p.animationFrame)
                           ELSE @,
              !.animationFrame = 0]

\* pause(): audioElement.pause(), isPlaying = false, stopLyricsSync()
pause(p) ==
    [p EXCEPT !.isPlaying = FALSE,
              !.rafQueue = IF p.animationFrame # 0
                           THEN cancelAnimationFrame(@, p.animationFrame)
                           ELSE @,
              !.animationFrame = 0]

\* a reset of the retained index that leaves the display as it is
clearIndexOnly(p) ==
    [p EXCEPT !.currentLyricIndex = -1,
              !.resetSince = TRUE]

\* what restart() and stop() do to the retained index and the display
clearLyric(p) ==
    [p EXCEPT !.currentLyricIndex = -1,
              !.displayText = <<>>,
              !.lyricsActive = FALSE,
              !.resetSince = TRUE]

\* Handles are opaque numbers that the player only hands back to
\* cancelAnimationFrame, so between two steps they are renumbered: a
\* pending callback's handle is its place in the queue, and a handle held
\* in this.animationFrame whose callback is gone is the next number.
RenumberedQueue(q) ==
    [k \in 1..Len(q.rafQueue) |-> [id |-> k, fn |-> q.rafQueue[k].fn]]

RenumberedHandle(q) ==
    IF q.animationFrame = 0 THEN 0
    ELSE IF \E k \in 1..Len(q.rafQueue) : q.rafQueue[k].id = q.animationFrame
    THEN CHOOSE k \in 1..Len(q.rafQueue) : q.rafQueue[k].id = q.animationFrame
    ELSE Len(q.rafQueue) + 1

\* the player's fields after a method left them as q
Becomes(q) ==
    /\ isPlaying' = q.isPlaying
    /\ currentLyricIndex' = q.currentLyricIndex
    /\ animationFrame' = RenumberedHandle(q)
    /\ rafQueue' = RenumberedQueue(q)
    /\ displayText' = q.displayText
    /\ lyricsActive' = q.lyricsActive
    /\ lastTick' = q.lastTick
    /\ resetSince' = q.resetSince

\* new KaraokePlayer(): initializePlayer() found its data, and
\* startVisualization() requested the first frame
InitPlayerWith(data) ==
    /\ lyrics \in data
    /\ currentTime = Finite(0)
    /\ playPromises = 0
    /\ isPlaying = FALSE
    /\ currentLyricIndex = -1
    /\ animationFrame = 1
    /\ rafQueue = <<[id |-> 1, fn |-> "drawVisualizer"]>>
    /\ displayText = <<>>
    /\ lyricsActive = FALSE
    /\ lastTick = NoTick
    /\ resetSince = FALSE
    /\ tickTrace = <<>>
    /\ ParseIdle
    /\ ServerIdle

InitPlayer == InitPlayerWith(LyricsData)

\* the playback position moves: playback goes on, or the user seeks
Playback(t) ==
    /\ currentTime' = t
    /\ UNCHANGED <<lyrics, playPromises, isPlaying, currentLyricIndex,
                   animationFrame, rafQueue, displayText, lyricsActive,
                   lastTick, resetSince, tickTrace>>
    /\ UNCHANGED <<parseVars, serverVars>>

\* togglePlay() while not playing: play() calls audioElement.play()
Play ==
    /\ ~isPlaying
    /\ playPromises < MaxPromises
    /\ playPromises' = playPromises + 1
    /\ UNCHANGED <<lyrics, currentTime, isPlaying, currentLyricIndex,
                   animationFrame, rafQueue, displayText, lyricsActive,
                   lastTick, resetSince, tickTrace>>
    /\ UNCHANGED <<parseVars, serverVars>>

\* the promise of audioElement.play() is fulfilled: isPlaying = true,
\* startLyricsSync(), startVisualization()
PlayResolvedStep ==
    /\ playPromises > 0
    /\ Len(rafQueue) + 2 <= MaxPending
    /\ playPromises' = playPromises - 1
    /\ Becomes(drawVisualizer(
                   updateLyrics([Player EXCEPT !.isPlaying = TRUE],
                                lyrics, currentTime)))
    /\ UNCHANGED <<lyrics, currentTime>>
    /\ UNCHANGED <<parseVars, serverVars>>

PlayResolved == PlayResolvedStep /\ UNCHANGED tickTrace

\* the promise of audioElement.play() is rejected: the error is logged
PlayRejected ==
    /\ playPromises > 0
    /\ playPromises' = playPromises - 1
    /\ UNCHANGED <<lyrics, currentTime, isPlaying, currentLyricIndex,
                   animationFrame, rafQueue, displayText, lyricsActive,
                   lastTick, resetSince, tickTrace>>
    /\ UNCHANGED <<parseVars, serverVars>>

\* togglePlay() while playing, or the page becomes hidden: pause().
\* audioElement.pause() rejects the play() promises still pending.
Pause ==
    /\ Becomes(pause(Player))
    /\ playPromises' = 0
    /\ UNCHANGED <<lyrics, currentTime, tickTrace>>
    /\ UNCHANGED <<parseVars, serverVars>>

\* restart()
Restart ==
    /\ currentTime' = Finite(0)
    /\ Becomes(clearLyric(Player))
    /\ UNCHANGED <<lyrics, playPromises, tickTrace>>
    /\ UNCHANGED <<parseVars, serverVars>>

\* the audio element, started by play() and not paused since, reaches
\* the end of the track and fires ended: stop()
Ended ==
    /\ isPlaying \/ playPromises > 0
    /\ currentTime' = Finite(0)
    /\ Becomes(clearLyric(pause(Player)))
    /\ playPromises' = 0
    /\ UNCHANGED <<lyrics, tickTrace>>
    /\ UNCHANGED <<parseVars, serverVars>>

\* the browser runs the oldest requested animation-frame callback
AnimationFrameStep ==
    /\ rafQueue # <<>>
    /\ LET fn == Head(rafQueue).fn
           p == [Player EXCEPT !.rafQueue = Tail(rafQueue)]
       IN  Becomes(IF fn = "updateLyrics"
                   THEN updateLyrics(p, lyrics, currentTime)
                   ELSE drawVisualizer(p))
    /\ UNCHANGED <<lyrics, currentTime, playPromises>>
    /\ UNCHANGED <<parseVars, serverVars>>

AnimationFrame == AnimationFrameStep /\ UNCHANGED tickTrace

NextPlayer ==
    \/ \E t \in TimeValues : Playback(t)
    \/ Play
    \/ PlayResolved
    \/ PlayRejected
    \/ Pause
    \/ Restart
    \/ Ended
    \/ AnimationFrame

SpecPlayer == InitPlayer /\ [][NextPlayer]_vars


-----------------------------------------------------------------------------
\* Properties of the synchronizer tick.  A step is a tick exactly when it
\* flips lastTick.n; a tick leaves lyrics and currentTime as they are, so
\* the unprimed currentTime is the time the tick read.

\* timestamp <= currentTime, as the numbers compare
ReachedBy(ts, t) ==
    \/ t.kind = "Infinity"
    \/ t.kind = "finite" /\ ts <= t.v

\* the indexes of the lines whose timestamp is <= t
ReachedLines(lyr, t) ==
    {i \in 0..(Len(lyr) - 1) : ReachedBy(lyr[i + 1].timestamp, t)}

TickStep == lastTick'.n # lastTick.n

\* C8: every tick resolves the highest index whose timestamp is <=
\* currentTime, and -1 when no line (or no line at all) is reached.
C8_TickResolvesHighest ==
    [][TickStep =>
          /\ lastTick'.resolved =
                IF ReachedLines(lyrics, currentTime) = {} THEN -1
                ELSE Max(ReachedLines(lyrics, currentTime))
          /\ currentLyricIndex' = lastTick'.resolved]_vars

\* a tick on <<0, 0, 10>> resolved the second of the two lines at 0
C8_Witness ==
    /\ lastTick.ticked
    /\ Len(lyrics) = 3
    /\ lyrics[1].timestamp = 0 /\ lyrics[2].timestamp = 0
    /\ lyrics[3].timestamp = 10
    /\ lastTick.resolved = 1

RetainedBefore(tick) == IF tick.afterReset THEN -1 ELSE tick.previous

C10_OutOfRangeResolvesNone ==
    [][(/\ TickStep
        /\ \A k \in 1..Len(lyrics) : lyrics[k].timestamp >= 0
        /\ currentTime.kind # "finite" \/ currentTime.v < 0)
          => lastTick'.resolved = -1]_vars

-----------------------------------------------------------------------------
\* SpecSync: the player page between construction and the first restart or
\* stop, with every run of updateLyrics recorded in tickTrace.  The
\* playback position moves freely, but never to a time before the one the
\* latest recorded run read, so the recorded times never decrease.

MaxTicks == 5

\* the playback positions of SpecSync
SyncTimes == {Finite(n) : n \in {-1, 0, 5, 10, 25}}

\* the lyrics of SpecSync: sorted, with timestamps among 0, 10 and 20
SyncLyricsData ==
    UNION {{[k \in 1..n |-> [timestamp |-> ts[k], text |-> LineText(k)]] :
              ts \in {t \in [1..n -> {0, 10, 20}] :
                         \A j, k \in 1..n : j < k => t[j] <= t[k]}} :
           n \in 0..MaxLyrics}

InitSync == InitPlayerWith(SyncLyricsData)

\* what tickTrace becomes in a step: a run of updateLyrics is appended
\* with the time it read
Recorded ==
    IF lastTick'.n # lastTick.n
    THEN Append(tickTrace, [time |-> currentTime.v,
                            resolved |-> lastTick'.resolved,
                            changed |-> lastTick'.changed])
    ELSE tickTrace

SyncPlayback(t) ==
    /\ tickTrace # <<>> => t.v >= tickTrace[Len(tickTrace)].time
    /\ Playback(t)

SyncPlayResolved ==
    /\ Len(tickTrace) < MaxTicks
    /\ PlayResolvedStep
    /\ tickTrace' = Recorded

SyncAnimationFrame ==
    /\ Len(tickTrace) < MaxTicks
    /\ AnimationFrameStep
    /\ tickTrace' = Recorded

NextSync ==
    \/ \E t \in SyncTimes : SyncPlayback(t)
    \/ Play
    \/ SyncPlayResolved
    \/ Pause
    \/ SyncAnimationFrame

SpecSync == InitSync /\ [][NextSync]_vars

\* the index retained before the k-th recorded run
RetainedAt(k) == IF k = 1 THEN -1 ELSE tickTrace[k - 1].resolved

ExampleLyrics ==
    /\ Len(lyrics) = 3
    /\ lyrics[1].timestamp = 0
    /\ lyrics[2].timestamp = 10
    /\ lyrics[3].timestamp = 20

\* C12: from the initial state, over ticks at non-decreasing times with no
\* restart or stop, the retained index never decreases and a change is
\* signalled exactly on the ticks where it increases; on the timestamps
\* 0, 10, 20 the ticks at -1, 0, 5, 10, 25 resolve -1, 0, 0, 1, 2 and
\* signal a change on the 2nd, 4th and 5th tick only.
C12_MonotoneTicks ==
    /\ \A k \in 1..Len(tickTrace) :
          /\ tickTrace[k].resolved >= RetainedAt(k)
          /\ tickTrace[k].changed <=> tickTrace[k].resolved > RetainedAt(k)
    /\ currentLyricIndex = RetainedAt(Len(tickTrace) + 1)
    /\ ( /\ ExampleLyrics
         /\ [k \in 1..Len(tickTrace) |-> tickTrace[k].time]
               = <<-1, 0, 5, 10, 25>> )
       => /\ [k \in 1..Len(tickTrace) |-> tickTrace[k].resolved]
               = <<-1, 0, 0, 1, 2>>
          /\ [k \in 1..Len(tickTrace) |-> tickTrace[k].changed]
               = <<FALSE, TRUE, FALSE, TRUE, TRUE>>

\* the five ticks of the example have run on the timestamps 0, 10, 20
C12_Witness ==
    /\ ExampleLyrics
    /\ [k \in 1..Len(tickTrace) |-> tickTrace[k].time] = <<-1, 0, 5, 10, 25>>
    /\ currentLyricIndex = 2

\* a player on which play() has just succeeded for the first time and no
\* run of updateLyrics has happened yet
FreshPlayer ==
    [isPlaying |-> TRUE, currentLyricIndex |-> -1, animationFrame |-> 1,
     rafQueue |-> <<[id |-> 1, fn |-> "drawVisualizer"]>>,
     displayText |-> <<>>, lyricsActive |-> FALSE, lastTick |-> NoTick,
     resetSince |-> FALSE]

\* C13: the tick is idempotent and history-independent.  After every tick,
\* a second tick at the same currentTime leaves the retained index as the
\* first left it and signals no change; and the index a tick at time t
\* retains is the one the first tick of a fresh player retains at t,
\* whatever ticks, pauses, restarts and stops came before.
C13_IdempotentHistoryFree ==
    [][TickStep =>
          LET again == updateLyrics(Player', lyrics, currentTime)
              first == updateLyrics(FreshPlayer, lyrics, currentTime)
          IN  /\ again.lastTick.n # lastTick'.n
              /\ again.currentLyricIndex = currentLyricIndex'
              /\ ~again.lastTick.changed
              /\ currentLyricIndex' = first.currentLyricIndex]_vars

\* a tick resolved a line after the tick before it had resolved another
C13_Witness ==
    /\ lastTick.ticked
    /\ ~lastTick.afterReset
    /\ lastTick.previous >= 0
    /\ lastTick.resolved >= 0
    /\ lastTick.resolved # lastTick.previous

-----------------------------------------------------------------------------
\* SpecStartup: the server starts on an uploads directory of up to
\* MaxScanned files, which readdirSync lists as StoredPath(1), (2), ...,
\* and runs initializeFileHashes.

MaxScanned == 3

InitStartup == InitServerWith(DisksUpTo(MaxScanned))

NextStartup == InitializeFileHashes

SpecStartup == InitStartup /\ [][NextStartup]_vars

\* the places in scan order of the readable files of bytes c
ReadableAt(c) ==
    {k \in 1..MaxScanned :
        /\ StoredPath(k) \in DOMAIN disk
        /\ disk[StoredPath(k)].readable
        /\ disk[StoredPath(k)].content = c}

UnreadableAt ==
    {k \in 1..MaxScanned :
        StoredPath(k) \in DOMAIN disk /\ ~disk[StoredPath(k)].readable}

-----------------------------------------------------------------------------
\* Further properties of parseLyrics, under SpecParse

\* the input holds nothing but spaces, tabs and line breaks
BlankInput == \A k \in 1..Len(content) : content[k] \in Whitespace \cup {"\n"}

\* the token starts as a decimal number: an optional sign, then a digit,
\* or a point and a digit
LeadsWithNumber(tok) ==
    LET sg == IF Len(tok) > 0 /\ tok[1] \in {"+", "-"} THEN 1 ELSE 0
    IN  \/ Len(tok) > sg /\ tok[sg + 1] \in Digits
        \/ Len(tok) > sg + 1 /\ tok[sg + 1] = "." /\ tok[sg + 2] \in Digits

\* neither the tag rule nor the fallback rule can take line i: it is blank,
\* or it holds no tag and has a single token, or a leading token that does
\* not start as a number, or one that starts as a negative number
UnparseableLine(i) ==
    LET line == Trim(SrcLines[i])
        tok == SplitWs(line)[1]
    IN  \/ line = <<>>
        \/ /\ ~MatchesTag(i)
           /\ \/ Len(SplitWs(line)) < 2
              \/ ~LeadsWithNumber(tok)
              \/ tok[1] = "-" /\ ParseFloat(tok).val # 0

\* C16: parse is total.  Every input is parsed, and an input that is
\* empty, or blank, or has no line that either rule can take, gives the
\* empty sequence.
C16_ParseTotal ==
    parsePhase = "parsed" =>
        /\ BlankInput => parsed = <<>>
        /\ (\A i \in 1..Len(SrcLines) : UnparseableLine(i)) => parsed = <<>>

\* an input with a line that is not blank and that no rule can take was
\* parsed to the empty sequence
C16_Witness ==
    /\ parsePhase = "parsed"
    /\ parsed = <<>>
    /\ \A i \in 1..Len(SrcLines) : UnparseableLine(i)
    /\ \E i \in 1..Len(SrcLines) : Trim(SrcLines[i]) # <<>>
    /\ \E i \in 1..Len(SrcLines) : Trim(SrcLines[i]) = <<>>

\* the trimmed line i starts with a tag whose fraction has one or two digits
StrictTag(i) ==
    LET line == Trim(SrcLines[i])
        sh == LrcShape(line, 1)
    IN  /\ line # <<>>
        /\ sh.ok
        /\ sh.close - sh.dot - 1 \in {1, 2}

\* the fallback rule as parseLyrics applies it takes line i
FallbackTakes(i) ==
    LET line == Trim(SrcLines[i])
        tok == SplitWs(line)[1]
    IN  /\ line # <<>>
        /\ Len(SplitWs(line)) >= 2
        /\ LeadsWithNumber(tok)
        /\ ~(tok[1] = "-" /\ ParseFloat(tok).val # 0)

\* C17: only a line of the shape [minutes:seconds.hundredths] text, with
\* the tag at the start of the trimmed line and one or two fraction
\* digits, is a tag match.  A line with text before the tag or with three
\* or more fraction digits contributes no tag LyricLine and does not
\* switch the input to tag mode: every returned LyricLine comes from a
\* line of the strict shape, or from a line the fallback rule takes in an
\* input without any line of the strict shape.
C17_TagAtStartTwoDigits ==
    parsePhase = "parsed" =>
        \A k \in 1..Len(parsed) :
            \/ StrictTag(parsed[k].lineNumber)
            \/ /\ FallbackTakes(parsed[k].lineNumber)
               /\ \A i \in 1..Len(SrcLines) : ~StrictTag(i)

\* line i matches the tag pattern and nothing but blanks follows the tag
EmptyTextTag(i) ==
    MatchesTag(i) /\ Trim(LrcMatch(Trim(SrcLines[i])).g4) = <<>>

\* C18: every returned LyricLine has non-empty text; a tag line with empty
\* text gives no LyricLine but makes the input tag-formatted, so an input
\* whose only tag lines have empty text yields the empty sequence, lines
\* that the fallback rule would take included.
C18_EmptyTextTag ==
    parsePhase = "parsed" =>
        /\ \A k \in 1..Len(parsed) : parsed[k].text # <<>>
        /\ \A k \in 1..Len(parsed) : ~EmptyTextTag(parsed[k].lineNumber)
        /\ ( /\ \E i \in 1..Len(SrcLines) : EmptyTextTag(i)
             /\ \A i \in 1..Len(SrcLines) : MatchesTag(i) => EmptyTextTag(i) )
           => parsed = <<>>

\* an input of an empty-text tag line and a line the fallback rule would
\* take was parsed to the empty sequence
C18_Witness ==
    /\ parsePhase = "parsed"
    /\ parsed = <<>>
    /\ \E i \in 1..Len(SrcLines) : EmptyTextTag(i)
    /\ \E i \in 1..Len(SrcLines) : ~MatchesTag(i) /\ FallbackAccepts(i)

-----------------------------------------------------------------------------
\* A further property of the upload handler, under SpecServer

\* C19: a request that is answered with a failure (status 400 or 500)
\* leaves the registry as it was before its handler ran: in particular
\* its audio file gets no record when its lyrics file cannot be read.
C19_FailureLeavesRegistry ==
    [][\A r \in DOMAIN responses' \ DOMAIN responses :
          responses'[r].status # 200 => fileHashes' = fileHashes]_vars

-----------------------------------------------------------------------------
\* A further property of the player's loops, under SpecPlayer

\* the pending animation-frame callbacks that run fn
PendingOf(fn) == {k \in 1..Len(rafQueue) : rafQueue[k].fn = fn}

\* C20: whatever the player has been through, at most one drawVisualizer
\* callback and at most one updateLyrics callback are pending.
C20_OneLoopEach ==
    /\ Cardinality(PendingOf("drawVisualizer")) <= 1
    /\ Cardinality(PendingOf("updateLyrics")) <= 1

-----------------------------------------------------------------------------
\* SpecIdle: the player page of SpecPlayer on a few lyrics and times, with
\* tickTrace telling whether an updateLyrics callback has fired while the
\* player was not playing, and what index it left.

IdleTimes == {Finite(0), Finite(10)}

IdleLyricsData ==
    {<<>>,
     <<[timestamp |-> 0, text |-> LineText(1)]>>,
     <<[timestamp |-> 0, text |-> LineText(1)],
       [timestamp |-> 10, text |-> LineText(2)]>>}

InitIdle == InitPlayerWith(IdleLyricsData)

\* the step runs an updateLyrics callback while isPlaying is false
IdleRun ==
    /\ rafQueue # <<>>
    /\ Head(rafQueue).fn = "updateLyrics"
    /\ ~isPlaying

IdleAnimationFrame ==
    /\ AnimationFrameStep
    /\ tickTrace' = IF IdleRun
                    THEN <<[idle |-> TRUE, index |-> currentLyricIndex']>>
                    ELSE tickTrace

NextIdle ==
    \/ \E t \in IdleTimes : Playback(t)
    \/ Play
    \/ PlayResolved
    \/ PlayRejected
    \/ Pause
    \/ Restart
    \/ Ended
    \/ IdleAnimationFrame

SpecIdle == InitIdle /\ [][NextIdle]_vars

\* C22: while isPlaying is false, an updateLyrics callback that fires
\* changes neither currentLyricIndex nor the display and requests no
\* further callback; and no step that leaves the player not playing moves
\* the index off -1 or the display off empty, so that after stop both
\* stay so until a play succeeds.
C22_IdleCallbackInert ==
    [][/\ (IdleRun /\ IdleAnimationFrame) =>
             /\ currentLyricIndex' = currentLyricIndex
             /\ displayText' = displayText
             /\ lyricsActive' = lyricsActive
             /\ lastTick' = lastTick
             /\ Len(rafQueue') = Len(rafQueue) - 1
             /\ \A k \in 1..Len(rafQueue') : rafQueue'[k].fn = rafQueue[k + 1].fn
       /\ (~isPlaying /\ ~isPlaying'
              /\ currentLyricIndex = -1 /\ displayText = <<>>) =>
             /\ currentLyricIndex' = -1
             /\ displayText' = <<>>]_vars

\* after stop or restart, with the player not playing, an updateLyrics
\* callback has fired and the index is -1 and the display empty
C22_Witness ==
    /\ tickTrace # <<>>
    /\ ~isPlaying
    /\ lastTick.ticked
    /\ resetSince
    /\ currentLyricIndex = -1
    /\ displayText = <<>>

=============================================================================
